---- MODULE Spec2Model ----
(***************************************************************************)
(* Model of the vibrate queue, the ramp executor, the device fan-out and   *)
(* the connection handling of src/venplug.ts.                              *)
(*                                                                         *)
(* JavaScript runs one task at a time: a handler runs without interruption *)
(* up to its next await of a device promise or of a timer.  Each action    *)
(* below is one such run.  A continuation that only waits for an already   *)
(* settled promise (a microtask) is part of the run that settled it.       *)
(***************************************************************************)
EXTENDS Integers, Sequences, FiniteSets

\* ---------------------------------------------------------------- bounds
MaxRequests == 2      \* VibrateEvents enqueued in one run
MaxDevices == 2       \* devices the server announces to one client
MaxSteps == 1         \* largest rampUpAndDownSteps value explored (the slider goes to 40)
MaxConnections == 2   \* handleConnection calls in one run
MaxDisconnections == 1 \* handleDisconnection calls in one run
MaxDirect == 1        \* direct-control vibrate commands in one run

\* ------------------------------------------------------- program constants
Unit == 1000000               \* intensities are counted in millionths: the 1 of line 1083
maxVibrationIntensity == 70   \* pluginSettings.maxVibrationIntensity, default

Requests == 1..MaxRequests
NoDevice == -1                \* VibrateEvent.deviceId is undefined
Undefined == 0                \* client.devices[i] for an index past the end

\* Values of the intensity option of the /test command: any integer is accepted
TestIntensities == {150}
\* Strength arguments of the direct-control commands (negative ones are refused)
DirectStrengths == {50}
\* How many of the configured trigger words a matching message contains
TriggerWordsMatched == {1}
\* Durations, in ms
Durations == {2000}

VARIABLES
    client,            \* the client variable: 0 is null, otherwise the ButtplugClient object
    clients,           \* the ButtplugClient objects created so far, with the calls pending on each
    batteryIntervalId, \* the batteryIntervalId variable: 0 is null
    intervals,         \* the setInterval timers: how many were made, and the active ones
    vibrateQueue,      \* the vibrateQueue array, as request ids
    events,            \* the VibrateEvent of each request id enqueued so far
    exec,              \* the handleVibrate call of each request
    stops,             \* the stopDevices call of each request
    pulses,            \* the device-added listener calls in progress
    sent,              \* the calls made on devices for each request
    outside,           \* the calls made on devices by the direct-control command and the listeners
    started,           \* the requests in the order handleVibrate was called for them
    unhandled,         \* promise rejections nothing handles
    rampUpAndDown,     \* pluginSettings.store.rampUpAndDown
    rampUpAndDownSteps,\* pluginSettings.store.rampUpAndDownSteps
    calls,             \* how many times each entry point ran (bounds the run)
    store,             \* pluginSettings.store: the settings handleMessage reads
    current,           \* the local user, the channel and the guild on screen
    recentlyHandledMessages, \* the recentlyHandledMessages array, as message ids
    handled            \* the last message given to handleMessage, and what came of it

vars == <<client, clients, batteryIntervalId, intervals,
          vibrateQueue, events, exec, stops, pulses, sent, outside, started, unhandled,
          rampUpAndDown, rampUpAndDownSteps, calls,
          store, current, recentlyHandledMessages, handled>>

\* ------------------------------------------------------------ intensities
\* A number is n / d in units of 1/Unit; d = 0 is NaN.
NaN == [n |-> 0, d |-> 0]
Num(x) == [n |-> x, d |-> 1]
IsNaN(v) == v.d = 0
InUnitRange(v) == ~IsNaN(v) /\ 0 <= v.n /\ v.n <= v.d * Unit

\* vibrateDevices, lines 1083-1084: the two comparisons are false for NaN
Clamp(v) ==
    IF IsNaN(v) THEN v
    ELSE IF v.n > v.d * Unit THEN Num(Unit)
    ELSE IF v.n < 0 THEN Num(0)
    ELSE v

\* handleVibrate, lines 1055/1058 and 1067/1070:
\*   startIntensity + ((endIntensity - startIntensity) / steps) * i
\* With steps = 0 the quotient is +-Infinity or NaN and the loop runs for i = 0
\* only, where Infinity * 0 and NaN * 0 are NaN.
RampValue(startIntensity, endIntensity, steps, i) ==
    IF steps = 0 THEN NaN
    ELSE [n |-> startIntensity * steps + (endIntensity - startIntensity) * i, d |-> steps]

\* ------------------------------------------------------------- executors
Running == {"vibrate", "sleep", "rampUp", "rampUpSleep", "hold", "rampDown", "rampDownSleep"}
AwaitDevice == {"vibrate", "rampUp", "rampDown"}
AwaitTimer == {"sleep", "rampUpSleep", "hold", "rampDownSleep"}

NoExec == [pc |-> "new", devs |-> <<>>, i |-> 0, k |-> 0, threw |-> FALSE, naps |-> <<>>]
NoStop == [pc |-> "none", k |-> 0]

IsRunning(r) == exec[r].pc \in Running

Cmd(dev, cmd, value) == [dev |-> dev, cmd |-> cmd, value |-> value]

\* The part of the state one run of the queue code can change.
Here == [q |-> vibrateQueue, events |-> events, exec |-> exec, stops |-> stops,
         sent |-> sent, started |-> started]

\* handleVibrate line 1045: data.deviceId ? [client.devices[data.deviceId]] : client.devices
\* (deviceId 0 is falsy, like undefined)
Targets(data, n) ==
    IF data.deviceId = NoDevice \/ data.deviceId = 0 THEN [j \in 1..n |-> j]
    ELSE IF data.deviceId + 1 <= n THEN <<data.deviceId + 1>>
    ELSE <<Undefined>>

\* The intensity handleVibrate passes to vibrateDevices at pc, step i
StepValue(data, pc, i) ==
    IF pc = "vibrate" THEN Num(data.strength)
    ELSE IF pc = "rampUp" THEN RampValue(0, data.strength, rampUpAndDownSteps, i)
    ELSE RampValue(data.strength, 0, rampUpAndDownSteps, i)

\* The sleep that follows the fan-out at pc
SleepAfter(pc) ==
    IF pc = "vibrate" THEN "sleep"
    ELSE IF pc = "rampUp" THEN "rampUpSleep"
    ELSE "rampDownSleep"

\* device.vibrate(intensity) / device.stop() is called for request r
Issue(S, r, dev, cmd, value) ==
    [S EXCEPT !.sent[r] = Append(@, Cmd(dev, cmd, value))]

\* vibrateDevices, lines 1082-1088, from its call up to its first await: the
\* clamp, then device.vibrate on the first device.  A missing device (undefined)
\* makes the call throw a TypeError, which rejects handleVibrate.
VibrateDevices(S, r, pc, i) ==
    LET devs == S.exec[r].devs
        value == Clamp(StepValue(S.events[r], pc, i))
    IN  IF devs = <<>>
        THEN [S EXCEPT !.exec[r].pc = SleepAfter(pc), !.exec[r].i = i, !.exec[r].k = 0]
        ELSE IF devs[1] = Undefined
        THEN [S EXCEPT !.exec[r].pc = "done", !.exec[r].threw = TRUE]
        ELSE [Issue(S, r, devs[1], "vibrate", value)
                 EXCEPT !.exec[r].pc = pc, !.exec[r].i = i, !.exec[r].k = 1]

\* vibrateDevices after device.vibrate resolved for device k: the next device,
\* or the return to handleVibrate, which starts the sleep of lines 1048/1059/1071
VibrateResolved(S, r) ==
    LET e == S.exec[r]
    IN  IF e.k < Len(e.devs)
        THEN [Issue(S, r, e.devs[e.k + 1], "vibrate", Clamp(StepValue(S.events[r], e.pc, e.i)))
                 EXCEPT !.exec[r].k = e.k + 1]
        ELSE [S EXCEPT !.exec[r].pc = SleepAfter(e.pc), !.exec[r].k = 0]

\* A faulty variant of the code below: no device is stopped.
StopDevicesNot(S, r) ==
    [S EXCEPT !.stops[r] = [pc |-> "done", k |-> 0]]

\* stopDevices, lines 1076-1081, from its call up to its first await
StopDevices(S, r) ==
    LET devs == S.exec[r].devs
    IN  IF devs = <<>>
        THEN [S EXCEPT !.stops[r] = [pc |-> "done", k |-> 0]]
        ELSE [Issue(S, r, devs[1], "stop", Num(0)) EXCEPT !.stops[r] = [pc |-> "await", k |-> 1]]

\* stopDevices after device.stop resolved for device k
StopResolved(S, r) ==
    LET k == S.stops[r].k
        devs == S.exec[r].devs
    IN  IF k < Len(devs)
        THEN [Issue(S, r, devs[k + 1], "stop", Num(0)) EXCEPT !.stops[r].k = k + 1]
        ELSE [S EXCEPT !.stops[r].pc = "done"]

\* handleVibrate lines 1049 and 1073: stopDevices(devices) is called and not
\* awaited, and handleVibrate returns
StopAndReturn(S, r) ==
    [StopDevices(S, r) EXCEPT !.exec[r].pc = "done"]

\* handleVibrate, lines 1040-1075, from its call up to its first await
HandleVibrate(S, r) ==
    LET S1 == [S EXCEPT !.started = Append(@, r)]
    IN  IF client = 0
        THEN [S1 EXCEPT !.exec[r] = [NoExec EXCEPT !.pc = "done"]]
        ELSE LET S2 == [S1 EXCEPT !.exec[r] =
                           [NoExec EXCEPT !.devs = Targets(S.events[r], clients[client].devices)]]
             IN  IF ~rampUpAndDown
                 THEN VibrateDevices(S2, r, "vibrate", 0)
                 ELSE VibrateDevices(S2, r, "rampUp", 0)

\* The time, in ms, handleVibrate sleeps at pc: data.duration (line 1048),
\* rampLength = data.duration * 0.2 / steps (lines 1052, 1059, 1071) or
\* data.duration * 0.54 (line 1062).  With steps = 0 rampLength is Infinity.
SleepLength(data, pc) ==
    IF pc = "sleep" THEN [n |-> data.duration, d |-> 1]
    ELSE IF pc = "hold" THEN [n |-> data.duration * 54, d |-> 100]
    ELSE [n |-> data.duration * 2, d |-> 10 * rampUpAndDownSteps]

\* handleVibrate after the sleep it awaited has ended (naps keeps the sleeps
\* that have ended, in order)
TimerFired(S, r) ==
    LET e == S.exec[r]
        S1 == [S EXCEPT !.exec[r].naps = Append(@, e.pc)]
    IN  CASE e.pc = "sleep" -> StopAndReturn(S1, r)
          [] e.pc = "rampUpSleep" ->
                IF e.i < rampUpAndDownSteps
                THEN VibrateDevices(S1, r, "rampUp", e.i + 1)
                ELSE [S1 EXCEPT !.exec[r].pc = "hold"]
          [] e.pc = "hold" -> VibrateDevices(S1, r, "rampDown", 0)
          [] e.pc = "rampDownSleep" ->
                IF e.i < rampUpAndDownSteps
                THEN VibrateDevices(S1, r, "rampDown", e.i + 1)
                ELSE StopAndReturn(S1, r)

\* handleVibrate after a device.vibrate it awaited rejected: the rejection
\* passes through vibrateDevices and handleVibrate
VibrateRejected(S, r) ==
    [S EXCEPT !.exec[r].pc = "done", !.exec[r].threw = TRUE]

\* Array.prototype.shift
Shift(q) == IF q = <<>> THEN q ELSE Tail(q)

RECURSIVE ProcessVibrateQueue(_)

\* A faulty variant of the code below: the shift and the next call sit after the
\* try/catch instead of in a finally that also runs when handleVibrate threw.
AfterHandleVibrateNoFinally(S, r) ==
    IF S.exec[r].pc = "done" /\ ~S.exec[r].threw
    THEN ProcessVibrateQueue([S EXCEPT !.q = Shift(S.q)])
    ELSE S

\* processVibrateQueue, lines 1028-1036, once handleVibrate(data) has been called:
\* while its promise is pending nothing happens; once it is settled (returned, or
\* threw and caught), finally shifts the queue and calls processVibrateQueue
AfterHandleVibrate(S, r) ==
    IF S.exec[r].pc = "done"
    THEN ProcessVibrateQueue([S EXCEPT !.q = Shift(S.q)])
    ELSE S

\* processVibrateQueue, lines 1021-1029
ProcessVibrateQueue(S) ==
    IF S.q = <<>> THEN S
    ELSE AfterHandleVibrate(HandleVibrate(S, S.q[1]), S.q[1])

\* A faulty variant of the code below: unshift in place of push.
AddToVibrateQueueFront(S, r, data) ==
    LET S1 == [S EXCEPT !.q = <<r>> \o @, !.events[r] = data,
                        !.exec[r].pc = "queued"]
    IN  IF Len(S1.q) = 1 THEN ProcessVibrateQueue(S1) ELSE S1

\* addToVibrateQueue, lines 1014-1019
AddToVibrateQueue(S, r, data) ==
    LET S1 == [S EXCEPT !.q = Append(@, r), !.events[r] = data,
                        !.exec[r].pc = "queued"]
    IN  IF Len(S1.q) = 1 THEN ProcessVibrateQueue(S1) ELSE S1

Commit(S) ==
    /\ vibrateQueue' = S.q
    /\ events' = S.events
    /\ exec' = S.exec
    /\ stops' = S.stops
    /\ sent' = S.sent
    /\ started' = S.started

\* ------------------------------------------------------ strings and messages
\* A string is a sequence of one-character strings.  A setting that was never
\* set is undefined: [set |-> FALSE]; one that was set holds its string in s.
Unset == [set |-> FALSE, s |-> <<>>]
Str(s) == [set |-> TRUE, s |-> s]

\* String.prototype.toLowerCase, on the alphabet used here
LowerChar(c) == IF c = "K" THEN "k" ELSE IF c = "T" THEN "t" ELSE c
ToLowerCase(s) == [j \in 1..Len(s) |-> LowerChar(s[j])]

\* A faulty variant of the code below: the whole string is compared.
IncludesWhole(s, w) == s = w

\* String.prototype.includes: every string includes the empty string
Includes(s, w) == \E i \in 0..(Len(s) - Len(w)) : SubSeq(s, i + 1, i + Len(w)) = w

\* String.prototype.startsWith
StartsWith(s, w) == Len(w) <= Len(s) /\ SubSeq(s, 1, Len(w)) = w

\* content.replace(prefix, "") for a content that starts with prefix
DropPrefix(s, w) == SubSeq(s, Len(w) + 1, Len(s))

\* String.prototype.split with a one-character separator: "" gives [""]
RECURSIVE Split(_, _)
Split(s, sep) ==
    IF \A j \in 1..Len(s) : s[j] # sep THEN <<s>>
    ELSE LET i == CHOOSE i \in 1..Len(s) : s[i] = sep /\ \A j \in 1..(i - 1) : s[j] # sep
         IN  <<SubSeq(s, 1, i - 1)>> \o Split(SubSeq(s, i + 1, Len(s)), sep)

\* Array.prototype.includes
Has(list, w) == \E j \in 1..Len(list) : list[j] = w

\* Number(word): the empty string is 0, digits are a decimal number, a leading
\* minus sign negates, anything else is NaN
Digits == {"0", "1", "2", "3", "5"}
Digit(c) == IF c = "1" THEN 1 ELSE IF c = "2" THEN 2 ELSE IF c = "3" THEN 3
            ELSE IF c = "5" THEN 5 ELSE 0
RECURSIVE Decimal(_)
Decimal(w) == IF w = <<>> THEN 0 ELSE Decimal(SubSeq(w, 1, Len(w) - 1)) * 10 + Digit(w[Len(w)])
AllDigits(w) == \A j \in 1..Len(w) : w[j] \in Digits
Number(w) ==
    IF AllDigits(w) THEN Num(Decimal(w))
    ELSE IF w[1] = "-" /\ Len(w) > 1 /\ AllDigits(Tail(w)) THEN Num(0 - Decimal(Tail(w)))
    ELSE NaN

\* ids of users, channels and guilds; a missing guild_id or author is the empty string
Me == <<"7">>
Friend == <<"8">>
Stranger == <<"9">>
NoUser == <<>>
NoGuild == <<>>
HomeGuild == <<"g">>
OtherGuild == <<"h">>
HomeChannel == <<"c">>
OtherChannel == <<"d">>

\* pluginSettings, lines 466-535: the defaults of what handleMessage reads
DefaultStore ==
    [allowDirectUserControl |-> FALSE, directControlAllowedUsers |-> Unset,
     directControlCommandPrefix |-> <<">", ".">>,
     targetWords |-> Unset, triggerWords |-> Unset, addOnWords |-> Unset,
     switchBlacklistToWhitelist |-> FALSE,
     listedUsers |-> Unset, listedChannels |-> Unset, listedGuilds |-> Unset,
     altOptions |-> "none"]

\* UserStore.getCurrentUser(), getCurrentChannel(), getCurrentGuild()
CurrentWith(username) ==
    [user |-> [id |-> Me, username |-> username], channel |-> HomeChannel, guild |-> HomeGuild]

\* A message of the MESSAGE_CREATE event: sent by Friend in HomeChannel of
\* HomeGuild, mentioning nobody and replying to nothing
Message(id, content) ==
    [id |-> id, state |-> "SENT", author |-> Friend, bot |-> FALSE,
     guild_id |-> HomeGuild, channel_id |-> HomeChannel,
     mentions |-> {}, repliesTo |-> NoUser, content |-> content]

NoHandled == [message |-> Message(0, <<>>), result |-> "none", request |-> 0, found |-> <<0, 0>>]

\* recentlyHandledMessages keeps the last 99 ids, line 701
RecentCapacity == 99

\* A duration that Number() could not read: NaN
NotANumber == -1

\* ---------------------------------------------------------------- state
NoEvent == [strength |-> 0, duration |-> 0, deviceId |-> NoDevice]
NewClient == [connected |-> FALSE, devices |-> 0, listeners |-> 0,
              connecting |-> 0, disconnecting |-> 0]

Init ==
    /\ client = 0
    /\ clients = <<>>
    /\ batteryIntervalId = 0
    /\ intervals = [made |-> 0, active |-> {}]
    /\ vibrateQueue = <<>>
    /\ events = [r \in Requests |-> NoEvent]
    /\ exec = [r \in Requests |-> NoExec]
    /\ stops = [r \in Requests |-> NoStop]
    /\ pulses = <<>>
    /\ sent = [r \in Requests |-> <<>>]
    /\ outside = [direct |-> <<>>, pulse |-> <<>>]
    /\ started = <<>>
    /\ unhandled = 0
    /\ rampUpAndDown \in BOOLEAN
    /\ rampUpAndDownSteps \in 0..MaxSteps
    /\ calls = [enqueue |-> 0, connect |-> 0, disconnect |-> 0, direct |-> 0, noClient |-> {}]
    /\ store = DefaultStore
    /\ current = CurrentWith(<<"k">>)
    /\ recentlyHandledMessages = <<>>
    /\ handled = NoHandled

Connection == <<client, clients, batteryIntervalId, intervals>>
Settings == <<rampUpAndDown, rampUpAndDownSteps>>
Messaging == <<store, current, recentlyHandledMessages, handled>>
Queue == <<vibrateQueue, events, exec, stops, sent, started>>

IsConnected == client # 0 /\ clients[client].connected

\* ------------------------------------------------- entry points of the queue
Enqueue(data) ==
    /\ calls.enqueue < MaxRequests
    /\ calls' = [calls EXCEPT !.enqueue = @ + 1,
                              !.noClient = IF client = 0 THEN @ \cup {calls.enqueue + 1} ELSE @]
    /\ Commit(AddToVibrateQueue(Here, calls.enqueue + 1, data))

\* commands "test", lines 653-657
CommandTest ==
    /\ \E intensity \in TestIntensities, duration \in Durations :
          Enqueue([strength |-> intensity * (Unit \div 100), duration |-> duration,
                   deviceId |-> NoDevice])
    /\ UNCHANGED <<Connection, Settings, Messaging, pulses, outside, unhandled>>

\* handleMessage lines 894-895 for a guild message that matched t trigger words
\* and a add-on words: intensity 19 t + 7.5 a, capped at 100, times
\* maxVibrationIntensity / 100 / 100
TriggerStrength(t, a) ==
    LET intensity2 == 38 * t + 15 * a              \* twice the intensity
        capped2 == IF intensity2 > 200 THEN 200 ELSE intensity2
    IN  capped2 * maxVibrationIntensity * (Unit \div 20000)

\* handleMessage, lines 864-896: a message that passed the filters and matched
TriggerMatch ==
    /\ \E t \in TriggerWordsMatched :
          Enqueue([strength |-> TriggerStrength(t, 0),
                   duration |-> 2000 * t + (IF rampUpAndDown THEN 1250 ELSE 0),
                   deviceId |-> NoDevice])
    /\ UNCHANGED <<Connection, Settings, Messaging, pulses, outside, unhandled>>

\* min(vibrationStrength, 100) * (maxVibrationIntensity / 100) / 100, lines 797-799, 812-814
DirectStrength(v) == (IF v > 100 THEN 100 ELSE v) * maxVibrationIntensity * (Unit \div 10000)

\* handleMessage, lines 730 and 772-814: the direct-control command vd, with a
\* device id k (four words) or without (three words).  Ids up to one past the
\* number of devices are tried; a larger id acts like that one.
DirectVd ==
    /\ IsConnected
    /\ \E v \in DirectStrengths, duration \in Durations :
          \/ Enqueue([strength |-> DirectStrength(v), duration |-> duration,
                      deviceId |-> NoDevice])
          \/ \E k \in 0..(clients[client].devices + 1) :
                /\ ~(clients[client].devices > k \/ k < 1)
                /\ Enqueue([strength |-> DirectStrength(v), duration |-> duration,
                            deviceId |-> k - 1])
    /\ UNCHANGED <<Connection, Settings, Messaging, pulses, outside, unhandled>>

\* handleMessage, lines 730 and 737-771: the direct-control command vibrate calls
\* device.vibrate itself, on one device (three words) or on all (two words); the
\* promises are not awaited
DirectVibrate ==
    /\ IsConnected
    /\ calls.direct < MaxDirect
    /\ calls' = [calls EXCEPT !.direct = @ + 1]
    /\ \E v \in DirectStrengths :
          \/ /\ outside' = [outside EXCEPT !.direct = @ \o
                      [j \in 1..clients[client].devices |->
                          Cmd(j, "vibrate",
                              Num((IF v > maxVibrationIntensity THEN maxVibrationIntensity ELSE v)
                                  * (Unit \div 100)))]]
             /\ UNCHANGED unhandled
          \/ \E k \in 0..(clients[client].devices + 1) :
                /\ ~(clients[client].devices > k \/ k < 1)
                /\ IF k <= clients[client].devices
                   THEN /\ outside' = [outside EXCEPT !.direct =
                                      Append(@, Cmd(k, "vibrate", Num(DirectStrength(v))))]
                        /\ UNCHANGED unhandled
                   ELSE \* client.devices[k - 1] is undefined: handleMessage rejects
                        /\ unhandled' = unhandled + 1
                        /\ UNCHANGED outside
    /\ UNCHANGED <<Connection, Settings, Messaging, pulses, Queue>>

\* ------------------------------------------------------------ handleMessage
\* What one call of handleMessage comes to: the branch it ended in, the
\* VibrateEvent it enqueues, the device calls it makes itself, whether it rejects,
\* and how many trigger words and add-on words it found
Outcome(result) ==
    [result |-> result, enqueue |-> FALSE, data |-> NoEvent, cmds |-> <<>>,
     rejects |-> FALSE, found |-> <<0, 0>>]

\* The duration read by Number()
DurationOf(x) == IF IsNaN(x) THEN NotANumber ELSE x.n

\* lines 747 and 783: the test that refuses a device id
InvalidDeviceId(deviceId) ==
    IsNaN(deviceId) \/ clients[client].devices > deviceId.n \/ deviceId.n < 1

\* lines 752, 762, 788, 793, 803, 808: the test that refuses a strength
InvalidStrength(vibrationStrength) ==
    IsNaN(vibrationStrength) \/ vibrationStrength.n < 0

\* handleMessage, lines 737-771: the command v (vibrate)
CommandVibrate(commandInfo) ==
    IF Len(commandInfo) < 2 \/ Len(commandInfo) > 3 THEN Outcome("usage")
    ELSE IF Len(commandInfo) = 3
    THEN LET deviceId == Number(commandInfo[2])
             vibrationStrength == Number(commandInfo[3])
         IN  IF InvalidDeviceId(deviceId) THEN Outcome("invalidDevice")
             ELSE IF InvalidStrength(vibrationStrength) THEN Outcome("invalidStrength")
             ELSE IF deviceId.n <= clients[client].devices
             THEN [Outcome("vibrate") EXCEPT !.cmds =
                      <<Cmd(deviceId.n, "vibrate", Num(DirectStrength(vibrationStrength.n)))>>]
             ELSE \* client.devices[deviceId - 1] is undefined: a TypeError
                  [Outcome("threw") EXCEPT !.rejects = TRUE]
    ELSE LET vibrationStrength == Number(commandInfo[2])
         IN  IF InvalidStrength(vibrationStrength) THEN Outcome("invalidStrength")
             ELSE LET v == IF vibrationStrength.n > maxVibrationIntensity
                           THEN maxVibrationIntensity ELSE vibrationStrength.n
                  IN  [Outcome("vibrate") EXCEPT !.cmds =
                          [j \in 1..clients[client].devices |->
                              Cmd(j, "vibrate", Num(v * (Unit \div 100)))]]

\* handleMessage, lines 772-814: the command vd (vibrationDuration)
CommandVd(commandInfo) ==
    IF Len(commandInfo) < 3 \/ Len(commandInfo) > 4 THEN Outcome("usage")
    ELSE IF Len(commandInfo) = 4
    THEN LET deviceId == Number(commandInfo[2])
             vibrationStrength == Number(commandInfo[3])
             durationTime == Number(commandInfo[4])
         IN  IF InvalidDeviceId(deviceId) THEN Outcome("invalidDevice")
             ELSE IF InvalidStrength(vibrationStrength) THEN Outcome("invalidStrength")
             ELSE [Outcome("vd") EXCEPT !.enqueue = TRUE, !.data =
                      [strength |-> DirectStrength(vibrationStrength.n),
                       duration |-> DurationOf(durationTime), deviceId |-> deviceId.n - 1]]
    ELSE LET vibrationStrength == Number(commandInfo[2])
             durationTime == Number(commandInfo[3])
         IN  IF InvalidStrength(vibrationStrength) THEN Outcome("invalidStrength")
             ELSE [Outcome("vd") EXCEPT !.enqueue = TRUE, !.data =
                      [strength |-> DirectStrength(vibrationStrength.n),
                       duration |-> DurationOf(durationTime), deviceId |-> NoDevice]]

\* directControlUsers, line 719: the setting split at spaces, or []
DirectControlUsers ==
    IF store.directControlAllowedUsers.set
    THEN Split(store.directControlAllowedUsers.s, " ") ELSE <<>>

\* handleMessage, line 724: the test that sends a message down the direct-control branch
IsDirectControl(message, content) ==
    /\ store.allowDirectUserControl
    /\ (message.author = current.user.id \/ Len(DirectControlUsers) > 0)
    /\ StartsWith(content, store.directControlCommandPrefix)

\* A faulty variant of the code below: every author may give commands.
MayCommandAnyone(message) == TRUE

\* handleMessage, line 728: the authors whose commands are executed
MayCommand(message) ==
    message.author = current.user.id \/ Has(DirectControlUsers, message.author)

\* handleMessage, lines 725-830: the direct-control branch (the commands by
\* their short names v, vd and d)
DirectControl(message, content) ==
    LET commandInfo == Split(DropPrefix(content, store.directControlCommandPrefix), " ")
    IN  IF ~MayCommand(message) THEN Outcome("refused")
        ELSE IF ~IsConnected THEN Outcome("notConnected")
        ELSE IF commandInfo[1] = <<"v">> THEN CommandVibrate(commandInfo)
        ELSE IF commandInfo[1] = <<"v", "d">> THEN CommandVd(commandInfo)
        ELSE IF commandInfo[1] = <<"d">> THEN Outcome("devices")
        ELSE Outcome("unknown")

\* The words of a comma-separated setting, lower-cased; <<>> when it is unset
Words(setting) == IF setting.set THEN Split(ToLowerCase(setting.s), ",") ELSE <<>>

\* handleMessage, line 838
IsTargeted(message, content) ==
    \/ current.user.id \in message.mentions
    \/ Includes(content, current.user.username)
    \/ message.repliesTo = current.user.id
    \/ message.guild_id = NoGuild
    \/ \E j \in 1..Len(Words(store.targetWords)) : Includes(content, Words(store.targetWords)[j])

\* A faulty variant of the code below: altOptions is not looked at.
OutOfScopeNever(message) == FALSE

\* handleMessage, lines 844-849
OutOfScope(message) ==
    \/ store.altOptions = "dmOnly" /\ message.guild_id # NoGuild
    \/ store.altOptions = "currentChannelOnly" /\ message.channel_id # current.channel
    \/ store.altOptions = "currentGuildOnly"
          /\ (message.guild_id = NoGuild \/ message.guild_id # current.guild)

\* lines 714-716 and 853-855: the ids are split at commas and not lower-cased
IsListed(setting, id) == setting.set /\ Has(Split(setting.s, ","), id)

\* handleMessage, lines 853-859
ShouldIncludeMessage(message) ==
    LET isUserListed == IsListed(store.listedUsers, message.author)
        isChannelListed == IsListed(store.listedChannels, message.channel_id)
        isGuildListed == message.guild_id # NoGuild /\ IsListed(store.listedGuilds, message.guild_id)
    IN  IF store.switchBlacklistToWhitelist
        THEN isUserListed \/ isChannelListed \/ isGuildListed
        ELSE ~isUserListed /\ ~isChannelListed /\ ~isGuildListed

\* The intensity of the matcher is counted in fortieths (7.5 * 1.35 = 405 / 40)
Scale == 40

\* Math.floor(Math.random() * (30 - 5 + 1) + 5), line 882: 5..30, the ends tried
AddOnLengths == {5, 30}

\* lines 870-876: the forEach over triggerWords, from word j on
RECURSIVE ScanTriggerWords(_, _, _)
ScanTriggerWords(words, content, j) ==
    IF j > Len(words) THEN [triggered |-> FALSE, intensity |-> 0, length |-> 0, found |-> 0]
    ELSE LET rest == ScanTriggerWords(words, content, j + 1)
         IN  IF Includes(content, words[j])
             THEN [triggered |-> TRUE, intensity |-> rest.intensity + 19 * Scale,
                   length |-> rest.length + 2000, found |-> rest.found + 1]
             ELSE rest

\* lines 879-884: the forEach over addOnWords, from word j on; random[j] is what
\* Math.random gives for word j
RECURSIVE ScanAddOnWords(_, _, _, _)
ScanAddOnWords(words, content, random, j) ==
    IF j > Len(words) THEN [intensity |-> 0, length |-> 0, found |-> 0]
    ELSE LET rest == ScanAddOnWords(words, content, random, j + 1)
         IN  IF Includes(content, words[j])
             THEN [intensity |-> rest.intensity + (15 * Scale) \div 2,
                   length |-> rest.length + random[j], found |-> rest.found + 1]
             ELSE rest

\* A faulty variant of the code below: a direct message counts like any other.
TimesDirectMessageNot(intensity) == intensity

\* line 887: intensity *= 1.35
TimesDirectMessage(intensity) == (intensity * 135) \div 100

\* The add-on words for which line 882 calls Math.random: none for a message
\* that is dropped at lines 696-698
AddOnsFound(message) ==
    IF message.state = "SENDING" \/ Has(recentlyHandledMessages, message.id) THEN {}
    ELSE LET addOnWords == Words(store.addOnWords)
             content == ToLowerCase(message.content)
         IN  {j \in 1..Len(addOnWords) : Includes(content, addOnWords[j])}

\* handleMessage, lines 864-896
TriggerScan(message, content, random) ==
    IF ~store.triggerWords.set THEN Outcome("noTriggerWords")
    ELSE LET trigger == ScanTriggerWords(Words(store.triggerWords), content, 1)
             addOn == ScanAddOnWords(Words(store.addOnWords), content, random, 1)
             summed == trigger.intensity + addOn.intensity
             intensity == IF message.guild_id = NoGuild THEN TimesDirectMessage(summed) ELSE summed
             summedLength == trigger.length + addOn.length
             length == (IF message.guild_id = NoGuild THEN summedLength * 2 ELSE summedLength)
                       + (IF rampUpAndDown THEN 1250 ELSE 0)
             capped == IF intensity > 100 * Scale THEN 100 * Scale ELSE intensity
         IN  IF ~trigger.triggered THEN Outcome("noMatch")
             ELSE [Outcome("matched") EXCEPT !.enqueue = TRUE,
                      !.found = <<trigger.found, addOn.found>>,
                      !.data = [strength |-> (capped * maxVibrationIntensity * (Unit \div 10000))
                                                \div Scale,
                                duration |-> length, deviceId |-> NoDevice]]

\* A faulty variant of the code below: the author is not looked at.
MatcherOfAnyAuthor(message, content, random) ==
    IF ~IsTargeted(message, content) THEN Outcome("notTargeted")
    ELSE IF OutOfScope(message) THEN Outcome("outOfScope")
    ELSE IF ~ShouldIncludeMessage(message) THEN Outcome("notIncluded")
    ELSE TriggerScan(message, content, random)

\* handleMessage, lines 833-862: the checks in front of the trigger scan
Matcher(message, content, random) ==
    IF message.author = current.user.id \/ message.bot THEN Outcome("ownOrBot")
    ELSE IF ~IsTargeted(message, content) THEN Outcome("notTargeted")
    ELSE IF OutOfScope(message) THEN Outcome("outOfScope")
    ELSE IF ~ShouldIncludeMessage(message) THEN Outcome("notIncluded")
    ELSE TriggerScan(message, content, random)

\* handleMessage, lines 706-897, for a message that is new
Decide(message, random) ==
    LET content == ToLowerCase(message.content)
    IN  IF IsDirectControl(message, content) THEN DirectControl(message, content)
        ELSE Matcher(message, content, random)

\* lines 696-698 read no more of a message than its state and its id
Unread(message) == [Message(message.id, <<>>) EXCEPT !.state = message.state]

\* A faulty variant of the code below: no id is ever dropped.
RememberAll(list, id) == Append(list, id)

\* lines 700-703
Remember(list, id) ==
    LET pushed == Append(list, id)
    IN  IF Len(pushed) > RecentCapacity THEN Tail(pushed) ELSE pushed

\* handleMessage, lines 695-897
HandleMessage(message, random) ==
    LET known == Has(recentlyHandledMessages, message.id)
        o == IF message.state = "SENDING" THEN Outcome("sending")
             ELSE IF known THEN Outcome("duplicate")
             ELSE Decide(message, random)
    IN  /\ recentlyHandledMessages' =
              IF message.state = "SENDING" \/ known THEN recentlyHandledMessages
              ELSE Remember(recentlyHandledMessages, message.id)
        /\ IF o.enqueue THEN Enqueue(o.data) ELSE UNCHANGED <<Queue, calls>>
        /\ outside' = [outside EXCEPT !.direct = @ \o o.cmds]
        /\ unhandled' = unhandled + (IF o.rejects THEN 1 ELSE 0)
        /\ handled' = [message |-> IF message.state = "SENDING" \/ known
                                    THEN Unread(message) ELSE message,
                       result |-> o.result,
                       request |-> IF o.enqueue THEN calls.enqueue + 1 ELSE 0,
                       found |-> o.found]
        /\ UNCHANGED <<Connection, Settings, pulses, store, current>>

\* ------------------------------------------------- the executor's awaits
\* device.vibrate, awaited by vibrateDevices for request r, resolves
VibrateResolves(r) ==
    /\ exec[r].pc \in AwaitDevice
    /\ Commit(AfterHandleVibrate(VibrateResolved(Here, r), r))
    /\ UNCHANGED <<Connection, Settings, Messaging, pulses, outside, unhandled, calls>>

\* device.vibrate, awaited by vibrateDevices for request r, rejects
VibrateRejects(r) ==
    /\ exec[r].pc \in AwaitDevice
    /\ Commit(AfterHandleVibrate(VibrateRejected(Here, r), r))
    /\ UNCHANGED <<Connection, Settings, Messaging, pulses, outside, unhandled, calls>>

\* the timer of a sleep awaited by handleVibrate for request r fires
SleepEnds(r) ==
    /\ exec[r].pc \in AwaitTimer
    /\ Commit(AfterHandleVibrate(TimerFired(Here, r), r))
    /\ UNCHANGED <<Connection, Settings, Messaging, pulses, outside, unhandled, calls>>

\* device.stop, awaited by the stopDevices call of request r, resolves
StopResolves(r) ==
    /\ stops[r].pc = "await"
    /\ Commit(StopResolved(Here, r))
    /\ UNCHANGED <<Connection, Settings, Messaging, pulses, outside, unhandled, calls>>

\* device.stop, awaited by the stopDevices call of request r, rejects: the
\* promise of stopDevices rejects, and nothing awaits or catches it
StopRejects(r) ==
    /\ stops[r].pc = "await"
    /\ stops' = [stops EXCEPT ![r].pc = "rejected"]
    /\ unhandled' = unhandled + 1
    /\ UNCHANGED <<Connection, Settings, Messaging, pulses, outside, vibrateQueue, events, exec, sent, started,
                   calls>>

\* ------------------------------------------------------------ connection
\* clearInterval(batteryIntervalId), line 904
ClearInterval ==
    intervals' = [intervals EXCEPT !.active = @ \ {batteryIntervalId}]

\* handleDisconnection, lines 899-903, up to the await of client.disconnect();
\* with no connected client there is no await and the function runs to its end
HandleDisconnection ==
    /\ calls.disconnect < MaxDisconnections
    /\ calls' = [calls EXCEPT !.disconnect = @ + 1]
    /\ vibrateQueue' = <<>>
    /\ IF IsConnected
       THEN /\ clients' = [clients EXCEPT ![client].disconnecting = @ + 1]
            /\ UNCHANGED <<client, intervals>>
       ELSE /\ client' = 0
            /\ ClearInterval
            /\ UNCHANGED clients
    /\ UNCHANGED <<batteryIntervalId, Settings, Messaging, events, exec, stops, pulses, sent, outside,
                   started, unhandled>>

\* handleDisconnection, lines 902-911, after client.disconnect() resolved
DisconnectResolves(c) ==
    /\ clients[c].disconnecting > 0
    /\ clients' = [clients EXCEPT ![c].disconnecting = @ - 1, ![c].connected = FALSE]
    /\ client' = 0
    /\ ClearInterval
    /\ UNCHANGED <<batteryIntervalId, Settings, Messaging, Queue, pulses, outside, unhandled, calls>>

\* handleDisconnection, lines 912-914, after client.disconnect() rejected
DisconnectRejects(c) ==
    /\ clients[c].disconnecting > 0
    /\ clients' = [clients EXCEPT ![c].disconnecting = @ - 1]
    /\ UNCHANGED <<client, batteryIntervalId, intervals, Settings, Messaging, Queue, pulses, outside,
                   unhandled, calls>>

\* handleConnection, lines 924-973, up to the await of client.connect(connector)
\* (websocketUrl is set: its validator refuses the empty string)
HandleConnection ==
    /\ calls.connect < MaxConnections
    /\ calls' = [calls EXCEPT !.connect = @ + 1]
    /\ LET made == IF client = 0 THEN Append(clients, NewClient) ELSE clients
           c == IF client = 0 THEN Len(made) ELSE client
       IN  /\ client' = c
           /\ clients' = [made EXCEPT ![c].listeners = @ + 1, ![c].connecting = @ + 1]
    /\ UNCHANGED <<batteryIntervalId, intervals, Settings, Messaging, Queue, pulses, outside, unhandled>>

\* checkDeviceBattery, lines 994-1012
CheckDeviceBattery ==
    IF client = 0
    THEN UNCHANGED <<batteryIntervalId, intervals>>
    ELSE /\ batteryIntervalId' = intervals.made + 1
         /\ intervals' = [made |-> intervals.made + 1,
                          active |-> intervals.active \cup {intervals.made + 1}]

\* handleConnection, lines 973-982, after client.connect resolved
ConnectResolves(c) ==
    /\ clients[c].connecting > 0
    /\ clients' = [clients EXCEPT ![c].connecting = @ - 1, ![c].connected = TRUE]
    /\ CheckDeviceBattery
    /\ UNCHANGED <<client, Settings, Messaging, Queue, pulses, outside, unhandled, calls>>

\* handleConnection, lines 983-991, after client.connect rejected
ConnectRejects(c) ==
    /\ clients[c].connecting > 0
    /\ clients' = [clients EXCEPT ![c].connecting = @ - 1]
    /\ UNCHANGED <<client, batteryIntervalId, intervals, Settings, Messaging, Queue, pulses, outside,
                   unhandled, calls>>

\* The server announces a device to client object c: every deviceadded listener
\* of c runs lines 939-953 up to the await of device.vibrate(0.1)
DeviceAdded(c) ==
    /\ clients[c].connected
    /\ clients[c].devices < MaxDevices
    /\ clients' = [clients EXCEPT ![c].devices = @ + 1]
    /\ LET d == clients[c].devices + 1
           n == clients[c].listeners
       IN  /\ pulses' = pulses \o [j \in 1..n |-> [dev |-> d, pc |-> "vibrate"]]
           /\ outside' = [outside EXCEPT !.pulse = @ \o
                          [j \in 1..n |-> Cmd(d, "vibrate", Num(Unit \div 10))]]
    /\ UNCHANGED <<client, batteryIntervalId, intervals, Settings, Messaging, Queue, unhandled, calls>>

Remove(seq, p) == [j \in 1..(Len(seq) - 1) |-> IF j < p THEN seq[j] ELSE seq[j + 1]]

\* the listener call p, lines 953-955: device.vibrate(0.1) resolved, the 500 ms
\* timer fired, device.stop() resolved
PulseAdvances(p) ==
    /\ p \in 1..Len(pulses)
    /\ CASE pulses[p].pc = "vibrate" ->
               /\ pulses' = [pulses EXCEPT ![p].pc = "sleep"]
               /\ UNCHANGED outside
         [] pulses[p].pc = "sleep" ->
               /\ pulses' = [pulses EXCEPT ![p].pc = "stop"]
               /\ outside' = [outside EXCEPT !.pulse = Append(@, Cmd(pulses[p].dev, "stop", Num(0)))]
         [] pulses[p].pc = "stop" ->
               /\ pulses' = Remove(pulses, p)
               /\ UNCHANGED outside
    /\ UNCHANGED <<Connection, Settings, Messaging, Queue, unhandled, calls>>

\* the listener call p, lines 956-961: device.vibrate or device.stop rejected,
\* the error is caught and logged
PulseRejects(p) ==
    /\ p \in 1..Len(pulses)
    /\ pulses[p].pc \in {"vibrate", "stop"}
    /\ pulses' = Remove(pulses, p)
    /\ UNCHANGED <<Connection, Settings, Messaging, Queue, outside, unhandled, calls>>

\* ------------------------------------------------------------------ runs
\* The promises and timers the executor waits for settle
ExecNext ==
    \/ \E r \in Requests : VibrateResolves(r)
    \/ \E r \in Requests : VibrateRejects(r)
    \/ \E r \in Requests : SleepEnds(r)
    \/ \E r \in Requests : StopResolves(r)
    \/ \E r \in Requests : StopRejects(r)

QueueNext == CommandTest \/ TriggerMatch \/ DirectVd \/ ExecNext

ConnectNext ==
    \/ HandleConnection
    \/ \E c \in 1..Len(clients) : ConnectResolves(c)
    \/ \E c \in 1..Len(clients) : ConnectRejects(c)
    \/ \E c \in 1..Len(clients) : DeviceAdded(c)
    \/ \E p \in 1..MaxDevices * MaxConnections : PulseAdvances(p)
    \/ \E p \in 1..MaxDevices * MaxConnections : PulseRejects(p)

DisconnectNext ==
    \/ HandleDisconnection
    \/ \E c \in 1..Len(clients) : DisconnectResolves(c)
    \/ \E c \in 1..Len(clients) : DisconnectRejects(c)

\* The messages MESSAGE_CREATE delivers in the runs below
Inbox ==
    {[id |-> id, state |-> state, author |-> author, bot |-> bot,
      guild_id |-> place[1], channel_id |-> place[2],
      mentions |-> mentions, repliesTo |-> repliesTo, content |-> content] :
        id \in {1}, state \in {"SENT", "SENDING"}, author \in {Me, Friend}, bot \in BOOLEAN,
        place \in {<<HomeGuild, HomeChannel>>, <<NoGuild, OtherChannel>>},
        mentions \in {{}, {Me}}, repliesTo \in {NoUser, Me},
        content \in {<<"t">>, <<">", ".", "v", " ", "5", "0">>}}

MessageCreate ==
    \E message \in Inbox :
        \E random \in [AddOnsFound(message) -> AddOnLengths] :
            HandleMessage(message, random)

Next == QueueNext \/ ConnectNext \/ DisconnectNext \/ DirectVibrate \/ MessageCreate

Spec == Init /\ [][Next]_vars

\* The queue at work across disconnection and reconnection: a run that starts when handleConnection has connected the
\* first client, the server has announced n devices and the listener calls for
\* them have ended (a state Spec reaches), and in which no further device appears.
PulseLog(n) == [j \in 1..(2 * n) |->
                  IF j % 2 = 1 THEN Cmd((j + 1) \div 2, "vibrate", Num(Unit \div 10))
                  ELSE Cmd(j \div 2, "stop", Num(0))]

InitConnected ==
    /\ client = 1
    /\ \E n \in 0..MaxDevices :
          /\ clients = <<[NewClient EXCEPT !.connected = TRUE, !.devices = n, !.listeners = 1]>>
          /\ outside = [direct |-> <<>>, pulse |-> PulseLog(n)]
    /\ batteryIntervalId = 1
    /\ intervals = [made |-> 1, active |-> {1}]
    /\ vibrateQueue = <<>>
    /\ events = [r \in Requests |-> NoEvent]
    /\ exec = [r \in Requests |-> NoExec]
    /\ stops = [r \in Requests |-> NoStop]
    /\ pulses = <<>>
    /\ sent = [r \in Requests |-> <<>>]
    /\ started = <<>>
    /\ unhandled = 0
    /\ rampUpAndDown \in BOOLEAN
    /\ rampUpAndDownSteps \in 0..MaxSteps
    /\ calls = [enqueue |-> 0, connect |-> 1, disconnect |-> 0, direct |-> 0, noClient |-> {}]
    /\ store = DefaultStore
    /\ current = CurrentWith(<<"k">>)
    /\ recentlyHandledMessages = <<>>
    /\ handled = NoHandled

ReconnectNext ==
    \/ HandleConnection
    \/ \E c \in 1..Len(clients) : ConnectResolves(c)
    \/ \E c \in 1..Len(clients) : ConnectRejects(c)

NextQueue == QueueNext \/ DisconnectNext \/ ReconnectNext

SpecQueue == InitConnected /\ [][NextQueue]_vars

\* The queue at work on one connection that stays up, fed by the /test command
\* (events for all devices) and the vd command (events for one device)
NextEnqueue == CommandTest \/ DirectVd \/ ExecNext

SpecEnqueue == InitConnected /\ [][NextEnqueue]_vars

\* The queue at work beside the direct-control command vibrate, on one connection
NextDirect == QueueNext \/ DirectVibrate

SpecDirect == InitConnected /\ [][NextDirect]_vars

\* The queue at work while the server announces further devices
NextDevices ==
    \/ NextEnqueue
    \/ \E c \in 1..Len(clients) : DeviceAdded(c)
    \/ \E p \in 1..MaxDevices : PulseAdvances(p)
    \/ \E p \in 1..MaxDevices : PulseRejects(p)

SpecDevices == InitConnected /\ [][NextDevices]_vars

\* ------------------------------------------------- runs of the connection
\* The command connect, lines 566-569
CommandConnect == ~IsConnected /\ HandleConnection

\* The command disconnect, lines 577-580
CommandDisconnect == ~(client # 0 /\ ~clients[client].connected) /\ HandleDisconnection

\* onChange of websocketUrl, lines 449-452: handleDisconnection() runs up to its
\* await of client.disconnect(), or to its end when no client is connected, and
\* then handleConnection() runs up to its await of client.connect(connector),
\* on the client object that is there or, after `client = null`, on a new one
WebsocketUrlChange ==
    /\ calls.connect < MaxConnections
    /\ calls.disconnect < MaxDisconnections
    /\ calls' = [calls EXCEPT !.connect = @ + 1, !.disconnect = @ + 1]
    /\ vibrateQueue' = <<>>
    /\ IF IsConnected
       THEN /\ clients' = [clients EXCEPT ![client].disconnecting = @ + 1,
                                          ![client].listeners = @ + 1,
                                          ![client].connecting = @ + 1]
            /\ UNCHANGED <<client, intervals>>
       ELSE /\ ClearInterval
            /\ clients' = Append(clients, [NewClient EXCEPT !.listeners = 1, !.connecting = 1])
            /\ client' = Len(clients) + 1
    /\ UNCHANGED <<batteryIntervalId, Settings, Messaging, events, exec, stops, pulses, sent, outside,
                   started, unhandled>>

\* The plugin from its construction: the commands connect and disconnect, the
\* change of websocketUrl, and the server announcing devices
NextConnect ==
    \/ CommandConnect
    \/ CommandDisconnect
    \/ WebsocketUrlChange
    \/ \E c \in 1..Len(clients) : ConnectResolves(c)
    \/ \E c \in 1..Len(clients) : ConnectRejects(c)
    \/ \E c \in 1..Len(clients) : DisconnectResolves(c)
    \/ \E c \in 1..Len(clients) : DisconnectRejects(c)
    \/ \E c \in 1..Len(clients) : DeviceAdded(c)
    \/ \E p \in 1..Len(pulses) : PulseAdvances(p)
    \/ \E p \in 1..Len(pulses) : PulseRejects(p)

SpecConnect == Init /\ [][NextConnect]_vars

\* websocketUrl is changed on a connection that is up, the server is there and
\* answers (client.disconnect() and client.connect() resolve), and requests of
\* /test run with no failing device call.  Promises settle and timers fire.
Settles ==
    \/ \E c \in 1..Len(clients) : DisconnectResolves(c)
    \/ \E c \in 1..Len(clients) : ConnectResolves(c)
    \/ \E r \in Requests : VibrateResolves(r)
    \/ \E r \in Requests : SleepEnds(r)
    \/ \E r \in Requests : StopResolves(r)

NextUrl == WebsocketUrlChange \/ CommandTest \/ Settles

SpecUrl == InitConnected /\ [][NextUrl]_vars /\ WF_vars(Settles)

\* The queue fed by /test across a disconnection and a reconnection to a server
\* that announces devices: no promise rejects, and the test pulses of the
\* announced devices, which touch nothing the queue reads, are left pending
NextReconnect ==
    \/ CommandTest
    \/ \E r \in Requests : VibrateResolves(r)
    \/ \E r \in Requests : SleepEnds(r)
    \/ \E r \in Requests : StopResolves(r)
    \/ CommandDisconnect
    \/ \E c \in 1..Len(clients) : DisconnectResolves(c)
    \/ CommandConnect
    \/ \E c \in 1..Len(clients) : ConnectResolves(c)
    \/ \E c \in 1..Len(clients) : DeviceAdded(c)

SpecReconnect == InitConnected /\ [][NextReconnect]_vars

\* --------------------------------------------------- runs of handleMessage
MaxMessages == 2      \* message ids delivered in one run

\* handleMessage at work on one connection with one device: the settings and
\* the local username are drawn from the sets given
InitHandling(stores, usernames, ramps) ==
    /\ client = 1
    /\ clients = <<[NewClient EXCEPT !.connected = TRUE, !.devices = 1, !.listeners = 1]>>
    /\ outside = [direct |-> <<>>, pulse |-> PulseLog(1)]
    /\ batteryIntervalId = 1
    /\ intervals = [made |-> 1, active |-> {1}]
    /\ vibrateQueue = <<>>
    /\ events = [r \in Requests |-> NoEvent]
    /\ exec = [r \in Requests |-> NoExec]
    /\ stops = [r \in Requests |-> NoStop]
    /\ pulses = <<>>
    /\ sent = [r \in Requests |-> <<>>]
    /\ started = <<>>
    /\ unhandled = 0
    /\ rampUpAndDown \in ramps
    /\ rampUpAndDownSteps = MaxSteps
    /\ calls = [enqueue |-> 0, connect |-> 1, disconnect |-> 0, direct |-> 0, noClient |-> {}]
    /\ store \in stores
    /\ current \in {CurrentWith(username) : username \in usernames}
    /\ recentlyHandledMessages = <<>>
    /\ handled = NoHandled

\* A MESSAGE_CREATE event arrives with one of the messages given
\* (ids count the messages in the order they first arrive)
Deliver(messages) ==
    \E message \in messages :
        /\ message.id <= Len(recentlyHandledMessages) + 1
        /\ \E random \in [AddOnsFound(message) -> AddOnLengths] :
              HandleMessage(message, random)

\* A message aimed at the local user in one way, or written by an author the
\* matcher ignores
Aimed(m, how) ==
    CASE how = "mention" -> [m EXCEPT !.mentions = {Me}]
      [] how = "reply" -> [m EXCEPT !.repliesTo = Me]
      [] how = "direct" -> [m EXCEPT !.guild_id = NoGuild]
      [] how = "own" -> [m EXCEPT !.author = Me]
      [] how = "bot" -> [m EXCEPT !.bot = TRUE]
      [] how = "sending" -> [m EXCEPT !.state = "SENDING"]
      [] OTHER -> m
By(m, author) == [m EXCEPT !.author = author]
In(m, guild_id, channel_id) == [m EXCEPT !.guild_id = guild_id, !.channel_id = channel_id]

\* --- the direct-control guard
ControlStores ==
    {[DefaultStore EXCEPT !.allowDirectUserControl = allow, !.directControlAllowedUsers = users,
                          !.triggerWords = Str(<<"v">>)] :
        allow \in BOOLEAN, users \in {Unset, Str(<<>>), Str(Stranger \o <<" ">> \o Friend)}}

ControlContents ==
    { <<">", ".", "v", " ", "5", "0">>,                     \* >.v 50
      <<">", ".", "v", "d", " ", "5", "0", " ", "2", "0">>, \* >.vd 50 20
      <<">", ".", "d">>,                                    \* >.d
      <<"v">> }

ControlMessages ==
    {Aimed(By(Message(id, content), author), "mention") :
        id \in 1..MaxMessages, content \in ControlContents, author \in {Me, Friend, <<"6">>}}

InitControl == InitHandling(ControlStores, {<<"k">>}, {FALSE})
NextControl == Deliver(ControlMessages)
SpecControl == InitControl /\ [][NextControl]_vars

\* --- targeting and the trigger words
MatcherStores ==
    {[DefaultStore EXCEPT !.triggerWords = trigger, !.targetWords = target] :
        trigger \in {Unset, Str(<<>>), Str(<<"t", ",", "u">>)},
        target \in {Unset, Str(<<"w">>)}}

MatcherContents ==
    { <<"x">>, <<"T", "u">>, <<"t", "k">>, <<"t", "K">>, <<"t", "w">> }

MatcherMessages ==
    {Aimed(Message(id, content), how) :
        id \in 1..MaxMessages, content \in MatcherContents,
        how \in {"plain", "mention", "reply", "direct", "own"}}

InitMatcher == InitHandling(MatcherStores, {<<"k">>, <<"K">>}, {FALSE})
NextMatcher == Deliver(MatcherMessages)
SpecMatcher == InitMatcher /\ [][NextMatcher]_vars

\* --- the black list and the white list
ListStores ==
    {[DefaultStore EXCEPT !.switchBlacklistToWhitelist = switch,
                          !.listedUsers = users, !.listedChannels = channels,
                          !.listedGuilds = guilds,
                          !.allowDirectUserControl = allow,
                          !.directControlAllowedUsers = Str(Friend),
                          !.triggerWords = Str(<<"t">>)] :
        switch \in BOOLEAN, allow \in BOOLEAN,
        users \in {Unset, Str(Friend)},
        channels \in {Unset, Str(OtherChannel \o <<",">> \o HomeChannel)},
        guilds \in {Unset, Str(HomeGuild)}}

ListContents ==
    { <<"t">>,
      <<">", ".", "v", "d", " ", "5", "0", " ", "2", "0">> }   \* >.vd 50 20

ListMessages ==
    {Aimed(In(By(Message(id, content), author), place[1], place[2]), "mention") :
        id \in 1..MaxMessages, content \in ListContents, author \in {Friend, Stranger},
        place \in {<<HomeGuild, HomeChannel>>, <<OtherGuild, OtherChannel>>,
                   <<NoGuild, OtherChannel>>}}

InitLists == InitHandling(ListStores, {<<"k">>}, {FALSE})
NextLists == Deliver(ListMessages)
SpecLists == InitLists /\ [][NextLists]_vars

\* --- the sums of the trigger scan
ScanStores ==
    {[DefaultStore EXCEPT !.triggerWords = Str(<<"t", ",", "u", ",", "p", ",", "q">>),
                          !.addOnWords = addOn] :
        addOn \in {Str(<<"a", ",", "b">>)}}

ScanContents ==
    { <<"x", "a">>, <<"t">>, <<"u", "t", "b", "a">>, <<"q", "p", "u", "t", "a", "b">> }

ScanMessages ==
    {Aimed(Message(id, content), how) :
        id \in 1..MaxMessages, content \in ScanContents, how \in {"mention", "direct"}}

InitScan == InitHandling(ScanStores, {<<"k">>}, BOOLEAN)
NextScan == Deliver(ScanMessages)
SpecScan == InitScan /\ [][NextScan]_vars

\* --- the message "hello trigger1" with triggerWords = "trigger1"
HelloTrigger1 == <<"h", "e", "l", "l", "o", " ", "t", "r", "i", "g", "g", "e", "r", "1">>
Trigger1 == <<"t", "r", "i", "g", "g", "e", "r", "1">>

ScenarioStores ==
    {[DefaultStore EXCEPT !.triggerWords = Str(Trigger1), !.targetWords = target] :
        target \in {Unset, Str(<<"h", "e", "l", "l", "o">>)}}

ScenarioMessages ==
    {Aimed(By(Message(id, content), author), how) :
        id \in 1..MaxMessages, content \in {HelloTrigger1, <<"h", "e", "l", "l", "o">>},
        author \in {Friend, Stranger, Me}, how \in {"plain", "mention", "reply", "sending"}}

InitScenario == InitHandling(ScenarioStores, {<<"k">>}, {FALSE})
NextScenario == Deliver(ScenarioMessages)
SpecScenario == InitScenario /\ [][NextScenario]_vars

\* --- altOptions
ScopeStores ==
    {[DefaultStore EXCEPT !.altOptions = mode, !.triggerWords = Str(<<"t">>),
                          !.allowDirectUserControl = allow,
                          !.directControlAllowedUsers = Str(Friend)] :
        mode \in {"none", "dmOnly", "currentChannelOnly", "currentGuildOnly"},
        allow \in BOOLEAN}

ScopeContents ==
    { <<"t">>,
      <<">", ".", "v", "d", " ", "5", "0", " ", "2", "0">> }   \* >.vd 50 20

ScopeMessages ==
    {Aimed(In(Message(id, content), place[1], place[2]), "mention") :
        id \in 1..MaxMessages, content \in ScopeContents,
        place \in {<<HomeGuild, HomeChannel>>, <<HomeGuild, OtherChannel>>,
                   <<OtherGuild, OtherChannel>>,
                   <<NoGuild, HomeChannel>>, <<NoGuild, OtherChannel>>}}

InitScope == InitHandling(ScopeStores, {<<"k">>}, {FALSE})
NextScope == Deliver(ScopeMessages)
SpecScope == InitScope /\ [][NextScope]_vars

\* --- the device ids of the direct-control commands
\* handleMessage at work on one connection with any number of devices, after
\* the messages with the given ids were handled
InitDevices(stores, counts, ids) ==
    /\ client = 1
    /\ \E n \in counts :
          /\ clients = <<[NewClient EXCEPT !.connected = TRUE, !.devices = n, !.listeners = 1]>>
          /\ outside = [direct |-> <<>>, pulse |-> PulseLog(n)]
    /\ batteryIntervalId = 1
    /\ intervals = [made |-> 1, active |-> {1}]
    /\ vibrateQueue = <<>>
    /\ events = [r \in Requests |-> NoEvent]
    /\ exec = [r \in Requests |-> NoExec]
    /\ stops = [r \in Requests |-> NoStop]
    /\ pulses = <<>>
    /\ sent = [r \in Requests |-> <<>>]
    /\ started = <<>>
    /\ unhandled = 0
    /\ rampUpAndDown = FALSE
    /\ rampUpAndDownSteps = MaxSteps
    /\ calls = [enqueue |-> 0, connect |-> 1, disconnect |-> 0, direct |-> 0, noClient |-> {}]
    /\ store \in stores
    /\ current = CurrentWith(<<"k">>)
    /\ recentlyHandledMessages = ids
    /\ handled = NoHandled

IdStores ==
    {[DefaultStore EXCEPT !.allowDirectUserControl = TRUE,
                          !.directControlAllowedUsers = Str(Friend)]}

IdWords == {<<"0">>, <<"1">>, <<"2">>, <<"3">>, <<"x">>}
IdContents ==
    { <<">", ".", "v", " ", "5", "0">> }                                 \* >.v 50
    \cup { <<">", ".", "v", " ">> \o id \o <<" ", "5", "0">> : id \in IdWords }
    \cup { <<">", ".", "v", "d", " ">> \o id \o <<" ", "5", "0", " ", "2", "0">> :
               id \in IdWords }

IdMessages == {Message(id, content) : id \in 1..MaxMessages, content \in IdContents}

InitIds == InitDevices(IdStores, 0..MaxDevices, <<>>)
NextIds == Deliver(IdMessages)
SpecIds == InitIds /\ [][NextIds]_vars

\* --- recentlyHandledMessages near its capacity: the ids 1..98 were handled
\* before; old ids come again and new ids arrive, in any order
HandledBefore == [j \in 1..(RecentCapacity - 1) |-> j]
OldIds == {1, 2}
NewIds == RecentCapacity..(RecentCapacity + MaxMessages - 1)

RecentStores == {[DefaultStore EXCEPT !.triggerWords = Str(<<"t">>)]}

RecentMessages ==
    {Aimed(Aimed(Message(id, content), "direct"), how) :
        id \in OldIds \cup NewIds, content \in {<<"t">>, <<"x">>},
        how \in {"plain", "sending"}}

InitRecent == InitDevices(RecentStores, {1}, HandledBefore)
NextRecent ==
    \E message \in RecentMessages :
        \E random \in [AddOnsFound(message) -> AddOnLengths] :
            HandleMessage(message, random)
SpecRecent == InitRecent /\ [][NextRecent]_vars

\* --- the author of a message
AuthorStores ==
    {[DefaultStore EXCEPT !.triggerWords = Str(<<"t">>),
                          !.allowDirectUserControl = allow,
                          !.directControlAllowedUsers = users] :
        allow \in BOOLEAN, users \in {Unset, Str(Friend)}}

AuthorContents ==
    { <<"t">>, <<"t", " ", "k">>,
      <<">", ".", "v", "d", " ", "5", "0", " ", "2", "0">> }   \* >.vd 50 20

AuthorMessages ==
    {[Aimed(By(Message(id, content), author), how) EXCEPT !.bot = bot] :
        id \in 1..MaxMessages, content \in AuthorContents, author \in {Me, Friend},
        bot \in BOOLEAN, how \in {"plain", "mention", "direct"}}

InitAuthors == InitHandling(AuthorStores, {<<"k">>}, {FALSE})
NextAuthors == Deliver(AuthorMessages)
SpecAuthors == InitAuthors /\ [][NextAuthors]_vars

\* ---------------------------------------------------------------- claims
InQueue(r) == \E j \in 1..Len(vibrateQueue) : vibrateQueue[j] = r
Pos(r) == CHOOSE j \in 1..Len(vibrateQueue) : vibrateQueue[j] = r

\* No further device call will be made for request r
Ended(r) == exec[r].pc = "done" /\ stops[r].pc # "await"

\* The devices request r is aimed at
TargetsOf(r) == {exec[r].devs[j] : j \in 1..Len(exec[r].devs)} \ {Undefined}

\* How many calls were made on device d for request r
CallsOn(r, d) == Cardinality({j \in 1..Len(sent[r]) : sent[r][j].dev = d})

\* C1: at every moment at most one VibrateEvent is being executed by
\* handleVibrate, whatever the interleaving of enqueues, handleDisconnection and
\* handleConnection.
C1_AtMostOneInFlight ==
    Cardinality({r \in Requests : IsRunning(r)}) <= 1

\* C2: of two requests enqueued one after the other, with no disconnection, every
\* device call of the first, its stop calls included, is made before the first
\* device call of the second: no call is made for r1 once one was made for r2.
C2_FirstCompletesBeforeSecond ==
    [][calls.disconnect = 0 =>
         \A r1, r2 \in Requests :
            (r1 < r2 /\ sent'[r1] # sent[r1]) => sent[r2] = <<>>]_vars

\* C3: while a request is executing, no vibrate or stop call reaches a device
\* from anything but that request's own execution.
C3_NoCallFromOutside ==
    [][\A r \in Requests :
         (IsRunning(r) /\ IsRunning(r)') =>
            /\ outside' = outside
            /\ \A s \in Requests \ {r} : sent'[s] = sent[s]]_vars

\* C4: a request leaves vibrateQueue only from the head (everything before it
\* leaves with it) and only when its own execution has ended; none is dropped.
C4_LeavesOnlyWhenExecuted ==
    [][\A r \in Requests :
         (InQueue(r) /\ ~InQueue(r)') =>
            /\ exec'[r].pc = "done"
            /\ \A a \in Requests :
                  (InQueue(a) /\ Pos(a) < Pos(r)) => ~InQueue(a)']_vars

\* C5: requests begin execution in arrival order (request ids count arrivals):
\* handleVibrate is called in increasing order and once per request, the queue
\* keeps arrival order, and a request enqueued behind another has not begun.
C5_BeginInArrivalOrder ==
    /\ \A i, j \in 1..Len(started) : i < j => started[i] < started[j]
    /\ \A i, j \in 1..Len(vibrateQueue) : i < j => vibrateQueue[i] < vibrateQueue[j]
    /\ \A j \in 2..Len(vibrateQueue) : exec[vibrateQueue[j]].pc = "queued"

\* Two requests have begun, the second from the queue behind the first
C5_Witness ==
    /\ started = <<1, 2>>
    /\ exec[1].pc = "done"
    /\ IsRunning(2)
    /\ calls.disconnect = 0

\* C6: once the execution of a request has ended for good, a stop call was made
\* on every device it was aimed at, also when a device call rejected or the
\* connection was torn down on the way.
C6_EndsWithStopOnEveryDevice ==
    \A r \in Requests :
        Ended(r) =>
            \A d \in TargetsOf(r) :
                \E j \in 1..Len(sent[r]) : sent[r][j].dev = d /\ sent[r][j].cmd = "stop"

\* C7: every intensity passed to device.vibrate by the executor is a number
\* within [0, 1].
C7_IntensityInUnitRange ==
    \A r \in Requests :
        \A j \in 1..Len(sent[r]) :
            sent[r][j].cmd = "vibrate" => InUnitRange(sent[r][j].value)

\* C8: when the execution of a request has ended for good, every device it was
\* aimed at got the same calls, also when a call on one of them failed.
C8_EveryDeviceGetsEveryCall ==
    \A r \in Requests :
        Ended(r) =>
            \A d1, d2 \in TargetsOf(r) : CallsOn(r, d1) = CallsOn(r, d2)

\* C9: the queue never rests non-empty with no request executing, also after
\* handleVibrate threw: the head of a non-empty queue is being executed and no
\* request whose execution ended is left in the queue.
C9_QueueAdvances ==
    vibrateQueue # <<>> =>
        /\ IsRunning(Head(vibrateQueue))
        /\ \A j \in 1..Len(vibrateQueue) : exec[vibrateQueue[j]].pc # "done"

\* handleVibrate threw for the first request and the second, queued behind it,
\* is executing
C9_Witness ==
    /\ exec[1].threw
    /\ sent[1] # <<>>
    /\ vibrateQueue = <<2>>
    /\ IsRunning(2)
    /\ calls.disconnect = 0

\* C10: no rejection of a vibrate or stop call made for a queued request is left
\* unhandled.
C10_NoUnhandledRejection ==
    unhandled = 0

\* The intensities passed to device.vibrate on device d for request r, in order
IsVibrateOn(d, c) == c.cmd = "vibrate" /\ c.dev = d
VibrateValues(r, d) ==
    LET on == SelectSeq(sent[r], LAMBDA c : IsVibrateOn(d, c))
    IN  [j \in 1..Len(on) |-> on[j].value]

\* Comparison of two numbers (false when one of them is NaN)
Less(a, b) == ~IsNaN(a) /\ ~IsNaN(b) /\ a.n * b.d < b.n * a.d
Same(a, b) == ~IsNaN(a) /\ ~IsNaN(b) /\ a.n * b.d = b.n * a.d

\* C11: no device ever receives a vibrate intensity above
\* maxVibrationIntensity / 100, whether the call comes from a queued request
\* (trigger match, /test, vd), from the direct-control vibrate command or from
\* the device-added test pulse.
AboveMax(v) == ~IsNaN(v) /\ v.n * 100 > v.d * maxVibrationIntensity * Unit
C11_NeverAboveMaximum ==
    /\ \A r \in Requests : \A j \in 1..Len(sent[r]) :
          sent[r][j].cmd = "vibrate" => ~AboveMax(sent[r][j].value)
    /\ \A j \in 1..Len(outside.direct) :
          outside.direct[j].cmd = "vibrate" => ~AboveMax(outside.direct[j].value)
    /\ \A j \in 1..Len(outside.pulse) :
          outside.pulse[j].cmd = "vibrate" => ~AboveMax(outside.pulse[j].value)

\* C12: with ramp enabled and N steps, a request with target intensity I sends
\* each device exactly N + 1 values going up, strictly increasing and ending at
\* I (seen when the hold begins), and then exactly N + 1 values going down,
\* strictly decreasing and ending at 0 (seen when handleVibrate has returned).
RampUpOk(r, d) ==
    LET v == VibrateValues(r, d)
        N == rampUpAndDownSteps
    IN  /\ Len(v) = N + 1
        /\ \A j \in 1..N : Less(v[j], v[j + 1])
        /\ Same(v[N + 1], Num(events[r].strength))
RampDownOk(r, d) ==
    LET v == VibrateValues(r, d)
        N == rampUpAndDownSteps
    IN  /\ Len(v) = 2 * (N + 1)
        /\ \A j \in (N + 2)..(2 * N + 1) : Less(v[j + 1], v[j])
        /\ Same(v[2 * (N + 1)], Num(0))
C12_RampSequence ==
    \A r \in Requests :
        rampUpAndDown =>
            /\ exec[r].pc = "hold" => \A d \in TargetsOf(r) : RampUpOk(r, d)
            /\ (exec[r].pc = "done" /\ ~exec[r].threw) =>
                   \A d \in TargetsOf(r) : RampDownOk(r, d)

\* C13: a request that carries a device index makes calls only on the device at
\* that index (index 0, the first device, included); a request without one is
\* aimed at every connected device.
C13_OnlyTheIndexedDevice ==
    \A r \in Requests :
        /\ events[r].deviceId # NoDevice =>
              \A j \in 1..Len(sent[r]) : sent[r][j].dev = events[r].deviceId + 1
        /\ (events[r].deviceId = NoDevice /\ exec[r].pc \in Running) =>
              \A d \in 1..Len(exec[r].devs) : exec[r].devs[d] = d

\* C14: every VibrateEvent put in vibrateQueue, by a trigger match, the /test
\* command or the vd command, has a strength within [0, 1] and a duration that
\* is a number >= 0.
C14_EventsWellFormed ==
    \A r \in Requests :
        exec[r].pc # "new" =>
            /\ 0 <= events[r].strength
            /\ events[r].strength <= Unit
            /\ events[r].duration >= 0

\* What handleMessage ends in once a message is past the guard of line 728
DirectResults == {"notConnected", "usage", "invalidDevice", "invalidStrength",
                  "vibrate", "threw", "vd", "devices", "unknown"}

\* C15: a direct-control command (vibrate, vd, devices) is executed only if
\* allowDirectUserControl is on and the author is the local user or is listed in
\* directControlAllowedUsers; with allowDirectUserControl off no message causes
\* a direct device command or a direct-control enqueue.
C15_DirectControlGuarded ==
    /\ handled.result \in DirectResults =>
          /\ store.allowDirectUserControl
          /\ \/ handled.message.author = Me
             \/ /\ store.directControlAllowedUsers.set
                /\ Has(Split(store.directControlAllowedUsers.s, " "), handled.message.author)
    /\ ~store.allowDirectUserControl =>
          /\ outside.direct = <<>>
          /\ handled.result \notin DirectResults

\* A listed user's vd command was enqueued
C15_Witness ==
    /\ handled.result = "vd"
    /\ handled.message.author = Friend
    /\ handled.request > 0
    /\ vibrateQueue # <<>>

\* C16: the matcher enqueues nothing for a message that contains none of the
\* configured trigger words, and nothing at all while triggerWords is unset or
\* the empty string.
C16_OnlyOnTriggerWord ==
    handled.result = "matched" =>
        /\ store.triggerWords.set
        /\ store.triggerWords.s # <<>>
        /\ \E j \in 1..Len(Words(store.triggerWords)) :
              Includes(ToLowerCase(handled.message.content), Words(store.triggerWords)[j])

\* The author, the channel or the guild of message m is on the list
OnTheList(m) ==
    \/ IsListed(store.listedUsers, m.author)
    \/ IsListed(store.listedChannels, m.channel_id)
    \/ IsListed(store.listedGuilds, m.guild_id)

\* C17: in blacklist mode a message whose author, channel or guild is listed
\* never produces a request; in whitelist mode a message produces a request
\* only if its author, channel or guild is listed.
C17_ListsRespected ==
    handled.request > 0 =>
        IF store.switchBlacklistToWhitelist
        THEN OnTheList(handled.message)
        ELSE ~OnTheList(handled.message)

\* Message m is targeted, as the five conditions are stated
TargetedAsStated(m) ==
    \/ Me \in m.mentions
    \/ Includes(ToLowerCase(m.content), ToLowerCase(current.user.username))
    \/ m.repliesTo = Me
    \/ m.guild_id = NoGuild
    \/ \E j \in 1..Len(Words(store.targetWords)) :
          Includes(ToLowerCase(m.content), Words(store.targetWords)[j])

\* C18: word matching produces a request only for a targeted message; each of
\* the five conditions alone makes a message targeted, and a message meeting
\* none of them is dropped as not targeted.
C18_OnlyWhenTargeted ==
    /\ handled.result = "matched" => TargetedAsStated(handled.message)
    /\ handled.result = "notTargeted" => ~TargetedAsStated(handled.message)

\* How many of the words of a comma-separated setting message m contains
Contained(setting, m) ==
    Cardinality({j \in 1..Len(Words(setting)) :
                    Includes(ToLowerCase(m.content), Words(setting)[j])})

\* C19: a message that passed targeting and the filters and contains t >= 1
\* trigger words and a add-on words is enqueued with
\*   strength = min(100, (19 t + 7.5 a) * (1.35 if direct message)) * max / 10000
\*   duration = (2000 t + a increments of 5..30) * (2 if direct message)
\*              + (1250 if ramp is on),
\* and a message with add-on words but no trigger word is not enqueued.  (The
\* intensity is counted in 800ths here, the strength in millionths.)
C19_StrengthAndDuration ==
    LET m == handled.message
        t == Contained(store.triggerWords, m)
        a == Contained(store.addOnWords, m)
        dm == m.guild_id = NoGuild
        sum800 == (152 * t + 60 * a) * (IF dm THEN 135 ELSE 100)
        min800 == IF sum800 > 80000 THEN 80000 ELSE sum800
        e == events[handled.request]
    IN  /\ handled.result = "matched" =>
              /\ t >= 1
              /\ e.strength * 8 = min800 * maxVibrationIntensity
              /\ \E extra \in (5 * a)..(30 * a) :
                    e.duration = (2000 * t + extra) * (IF dm THEN 2 ELSE 1)
                                 + (IF rampUpAndDown THEN 1250 ELSE 0)
        /\ handled.result = "noMatch" => t = 0 /\ handled.request = 0

\* A direct message with four trigger words and two add-on words was enqueued
\* at the cap, with ramp on
C19_Witness ==
    /\ handled.result = "matched"
    /\ handled.found = <<4, 2>>
    /\ handled.message.guild_id = NoGuild
    /\ events[handled.request].strength = maxVibrationIntensity * (Unit \div 100)
    /\ rampUpAndDown

\* The request made for the message handled last is the one of the scenario:
\* one request, strength 19 * max / 10000, 2000 ms
OneRequestOf19For2000 ==
    /\ handled.result = "matched"
    /\ handled.request = calls.enqueue
    /\ events[handled.request].strength * 100 = 19 * maxVibrationIntensity * (Unit \div 100)
    /\ events[handled.request].duration = 2000

Naps(r, pc) == Cardinality({j \in 1..Len(exec[r].naps) : exec[r].naps[j] = pc})
TimeSlept(r, pc) ==
    LET one == SleepLength(events[r], pc)
    IN  [n |-> Naps(r, pc) * one.n, d |-> one.d]

\* C21: with ramp on, duration D and N steps, once handleVibrate has returned
\* the N + 1 sleeps of the ramp-up add up to 20% of D, the hold sleep took 54%
\* of D, and the ramp-down took as long as the ramp-up.
C21_RampTiming ==
    \A r \in Requests :
        (rampUpAndDown /\ exec[r].pc = "done" /\ ~exec[r].threw /\ exec[r].naps # <<>>) =>
            /\ Naps(r, "rampUpSleep") = rampUpAndDownSteps + 1
            /\ Same(TimeSlept(r, "rampUpSleep"), [n |-> events[r].duration * 20, d |-> 100])
            /\ Same(TimeSlept(r, "hold"), [n |-> events[r].duration * 54, d |-> 100])
            /\ Same(TimeSlept(r, "rampDownSleep"), TimeSlept(r, "rampUpSleep"))

\* The calls made for request r, in order, as <<device, command>> pairs
CallsOf(r) == [j \in 1..Len(sent[r]) |-> <<sent[r][j].dev, sent[r][j].cmd>>]
VibrateEach(devs, n) == [j \in 1..n |-> <<devs[j], "vibrate">>]
StopEach(devs, n) == [j \in 1..n |-> <<devs[j], "stop">>]

\* C22: with ramp off and no failing device call, a request sends each device
\* it is aimed at one vibrate at its clamped strength, then sleeps once, for
\* its duration, then sends each of those devices one stop, and nothing else:
\* before the sleep has ended only vibrates were sent, one per device reached so
\* far, and when all is over the calls are the vibrates followed by the stops.
C22_OneVibrateThenStop ==
    \A r \in Requests :
        (~rampUpAndDown /\ ~exec[r].threw /\ stops[r].pc # "rejected") =>
            LET devs == exec[r].devs
                e == exec[r]
            IN  /\ \A j \in 1..Len(sent[r]) :
                      sent[r][j].cmd = "vibrate" =>
                          sent[r][j].value = Clamp(Num(events[r].strength))
                /\ e.pc = "vibrate" => e.naps = <<>> /\ CallsOf(r) = VibrateEach(devs, e.k)
                /\ e.pc = "sleep" => e.naps = <<>> /\ CallsOf(r) = VibrateEach(devs, Len(devs))
                /\ (e.pc = "done" /\ e.naps # <<>>) =>
                      /\ e.naps = <<"sleep">>
                      /\ SleepLength(events[r], "sleep") = Num(events[r].duration)
                      /\ CallsOf(r) = VibrateEach(devs, Len(devs)) \o StopEach(devs, stops[r].k)
                      /\ stops[r].pc = "done" => stops[r].k = Len(devs)

\* A request for two devices is over, with ramp off: two vibrates, the sleep,
\* two stops
C22_Witness ==
    \E r \in Requests :
        /\ ~rampUpAndDown
        /\ Len(exec[r].devs) = 2
        /\ exec[r].pc = "done"
        /\ stops[r].pc = "done"
        /\ exec[r].naps = <<"sleep">>
        /\ Len(sent[r]) = 4

C24_NoErrorEscapes == [][unhandled' = unhandled]_vars

\* The words of a direct-control command, and the device id it names
CommandInfoOf(m) ==
    Split(DropPrefix(ToLowerCase(m.content), store.directControlCommandPrefix), " ")
NamesDevice(m) ==
    \/ CommandInfoOf(m)[1] = <<"v">> /\ Len(CommandInfoOf(m)) = 3
    \/ CommandInfoOf(m)[1] = <<"v", "d">> /\ Len(CommandInfoOf(m)) = 4
DeviceIdOf(m) == Number(CommandInfoOf(m)[2])

\* C25: the commands vibrate and vd accept a device id k exactly when
\* 1 <= k <= the number of connected devices, and vibrate then acts on device
\* k; any other id is answered "Invalid device ID provided", with no device
\* command and no enqueue.
C25_DeviceIdChecked ==
    LET m == handled.message
        k == DeviceIdOf(m)
        valid == ~IsNaN(k) /\ 1 <= k.n /\ k.n <= clients[client].devices
    IN  (handled.result \in DirectResults /\ NamesDevice(m)) =>
            /\ valid <=> handled.result # "invalidDevice"
            /\ handled.result = "vibrate" =>
                  outside.direct[Len(outside.direct)].dev = k.n
            /\ handled.result = "invalidDevice" => handled.request = 0

\* C26: after websocketUrl was changed while the plugin was connected, the
\* plugin comes to hold, and keeps, a client that is not null and is connected
\* (so that the requests enqueued afterwards reach the devices).
C26_ReconnectsAfterUrlChange == (calls.disconnect > 0) ~> [](IsConnected)

\* C27: recentlyHandledMessages never holds more than 99 ids nor the same id
\* twice, and a message whose id is in the list when it is delivered is not
\* processed again: it enqueues nothing, sends no device command and leaves
\* the list as it is.
C27_HandledOnce ==
    /\ [](/\ Len(recentlyHandledMessages) <= RecentCapacity
          /\ \A i, j \in 1..Len(recentlyHandledMessages) :
                i # j => recentlyHandledMessages[i] # recentlyHandledMessages[j])
    /\ [][Has(recentlyHandledMessages, handled'.message.id) =>
            /\ handled'.result \in {"duplicate", "sending"}
            /\ UNCHANGED <<recentlyHandledMessages, Queue, outside, calls>>]_vars

\* The list is full and has dropped its oldest id; one request was made, and a
\* message with a new id was delivered again and put aside
C27_Witness ==
    /\ Len(recentlyHandledMessages) = RecentCapacity
    /\ ~Has(recentlyHandledMessages, 1)
    /\ handled.result = "duplicate"
    /\ handled.message.id \in NewIds
    /\ calls.enqueue = 1

\* C28: at most one battery interval is active at any time, and none while
\* client is null (after handleDisconnection has completed, before the first
\* connection): the poll never runs on a null client.
C28_OneBatteryInterval ==
    /\ Cardinality(intervals.active) <= 1
    /\ client = 0 => intervals.active = {}

\* C29: a client object never has more than one deviceadded listener, and each
\* device the server announces gets exactly one test pulse.
C29_OneListener ==
    /\ [](\A c \in 1..Len(clients) : clients[c].listeners <= 1)
    /\ [][\A c \in 1..Len(clients) :
            clients'[c].devices > clients[c].devices =>
                Len(outside'.pulse) = Len(outside.pulse) + 1]_vars

\* C30: a message written by the local user or by a bot never produces a
\* request through word matching: the matcher puts it aside, and if it makes a
\* request at all it does so as a direct-control command.
C30_NotOwnNorBot ==
    LET m == handled.message
    IN  (m.author = current.user.id \/ m.bot) =>
            /\ handled.result # "matched"
            /\ handled.request > 0 => handled.result \in DirectResults

\* A direct message of a bot that holds a trigger word was put aside, and so
\* was one of the local user
C30_Witness ==
    /\ handled.result = "ownOrBot"
    /\ handled.message.bot
    /\ handled.message.author # Me
    /\ handled.message.guild_id = NoGuild
    /\ Includes(handled.message.content, <<"t">>)
    /\ vibrateQueue = <<>>

\* C31: a request enqueued while client is null gets no device command, neither
\* at once nor after a later reconnection, and once handleVibrate has been
\* called for it, it has left the queue.
C31_NeverActuated ==
    \A r \in calls.noClient :
        /\ sent[r] = <<>>
        /\ exec[r].pc \in {"queued", "done"}
        /\ exec[r].pc = "done" => ~InQueue(r)

TypeOK ==
    /\ client \in 0..Len(clients)
    /\ Len(vibrateQueue) <= MaxRequests
    /\ \A r \in Requests : exec[r].pc \in Running \cup {"new", "queued", "done"}
    /\ \A r \in Requests : stops[r].pc \in {"none", "await", "done", "rejected"}

====
